---------------------------- MODULE Spec2Model ----------------------------
(***************************************************************************)
(* A model of the road_inspect detection pipeline:                         *)
(*   - DetectionService.calculate_overlap_percentage and                   *)
(*     DetectionService.filter_overlapping_detections (detection_service), *)
(*   - AnalysisService.process_detection and its enrichment threads        *)
(*     (analysis_service),                                                 *)
(*   - the main loop of run_service with its record store.                 *)
(*                                                                         *)
(* Three specifications share the variables:                               *)
(*   SpecFilter   one frame through filter_overlapping_detections,         *)
(*   SpecAnalysis one AnalysisService observed by a caller,                *)
(*   Spec         the main loop: process_frame, then the per-detection     *)
(*                loop of main, with both AnalysisService instances.       *)
(***************************************************************************)
EXTENDS Integers, Sequences, FiniteSets, TLC

(***************************************************************************)
(* Bounds of the model.                                                    *)
(***************************************************************************)
\* x coordinates of a box range over 0 .. MaxCoord
MaxCoord == 2

\* y coordinates of a box: one row of pixels, so heights are 1, 0 or -1
YCoords == 0 .. 1

\* confidences, in hundredths (all above CONFIDENCE_THRESHOLD = 0.5)
ConfLevels == {60, 80, 90}

\* class ids of the YOLO model: 0 and 1 are the damage classes
ClassIds == {0, 1}

\* values of the overlap_threshold constructor argument, in percent.
\* For these thresholds and integer areas the float comparison
\* (inter / smaller) * 100.0 > threshold agrees with the exact one.
Thresholds == {0, 50, 99, 100}

\* track ids the tracker assigns
Tracks == {1, 2}

\* the clock is followed for two throttle windows and MaxSlack seconds
MaxSlack == 2

\* threads started in a run
MaxDispatch == 2

\* frames of the video that process_frame processes
MaxFrames == 2

\* lines of a response
MaxLines == 2

(***************************************************************************)
(* Program constants.                                                      *)
(***************************************************************************)
OVERLAP_THRESHOLD == 50

ANALYSIS_INTERVAL == 5

\* values of the configured enrichment interval: the one of config.py, and
\* the zero and negative ones of the degenerate configurations
Intervals == {-1, 0, ANALYSIS_INTERVAL}

VARIABLES
    \* ---- filter_overlapping_detections: arguments, locals, return value
    boxes,              \* sequence of <<x1, y1, x2, y2>>
    confidences,        \* sequence of confidences
    track_ids,          \* sequence of track ids
    class_ids,          \* sequence of class ids
    overlap_threshold,  \* self.overlap_threshold
    sorted_indices,     \* np.argsort(-confidences)
    filtered,           \* the four returned lists and keep_indices
    fpc,                \* "call" before the call, "returned" after it
    \* ---- the clock and the configuration
    now,                \* time.time()
    interval,           \* ANALYSIS_INTERVAL as configured
    \* ---- the AnalysisService instances, indexed by their owner
    last_sent_times,    \* self.last_sent_times: a dict, track id -> time
    track_results,      \* self.track_results: a dict, track id -> verdict
    threads,            \* the started threads still running (task numbers)
    call,               \* the process_detection call between its lines 75 and 77
    \* ---- history
    dispatch_log,       \* every thread started so far, in start order
    obs,                \* the latest process_detection call and what it did
    \* ---- main of run_service
    pc,                 \* where main is
    frame_count,        \* frame_count
    frame_dets,         \* process_frame: the detections the filter returned
    fi,                 \* process_frame: position of its loop (line 135)
    detections,         \* the list process_frame builds and main iterates
    mi,                 \* main: position of its loop (line 65)
    db,                 \* the detections table: the set of its rows
    db_open,            \* the sqlite connection is open
    id_binding,         \* how sqlite3 binds the track_id main looks up
    \* ---- callers of save_detection other than main's loop
    savers              \* per caller: its position, arguments and SELECT result

filterVars == <<boxes, confidences, track_ids, class_ids, overlap_threshold,
                sorted_indices, filtered, fpc>>

analysisVars == <<now, interval, last_sent_times, track_results, threads, call,
                  dispatch_log, obs>>

mainVars == <<pc, frame_count, frame_dets, fi, detections, mi, db, db_open,
              id_binding, savers>>

(***************************************************************************)
(* Helpers.                                                                *)
(***************************************************************************)
Max(a, b) == IF a >= b THEN a ELSE b

Min(a, b) == IF a <= b THEN a ELSE b

SeqsUpTo(S, n) == UNION {[1 .. k -> S] : k \in 0 .. n}

Range(s) == {s[k] : k \in DOMAIN s}

\* s[idx[1]], s[idx[2]], ...: numpy's fancy indexing array[keep_indices]
Take(s, idx) == [j \in 1 .. Len(idx) |-> s[idx[j]]]

(***************************************************************************)
(* calculate_overlap_percentage.  The result is the rational num / den,    *)
(* standing for the float the code returns; 0.0 is 0 / 1.  A result with   *)
(* den = 0 would be a division by zero.                                    *)
(***************************************************************************)
Percent(n, d) == [num |-> n, den |-> d]

\* mutant: the early return for an empty intersection is missing
calculate_overlap_percentage_noguard(box1, box2) ==
    LET x1_inter == Max(box1[1], box2[1])
        y1_inter == Max(box1[2], box2[2])
        x2_inter == Min(box1[3], box2[3])
        y2_inter == Min(box1[4], box2[4])
        intersection_area == (x2_inter - x1_inter) * (y2_inter - y1_inter)
        box1_area == (box1[3] - box1[1]) * (box1[4] - box1[2])
        box2_area == (box2[3] - box2[1]) * (box2[4] - box2[2])
        smaller_area == Min(box1_area, box2_area)
    IN  IF smaller_area > 0 /\ intersection_area > 0
        THEN Percent(intersection_area * 100, smaller_area)
        ELSE Percent(0, 1)

\* mutant: intersection over union instead of over the smaller box
calculate_overlap_percentage_iou(box1, box2) ==
    LET x1_inter == Max(box1[1], box2[1])
        y1_inter == Max(box1[2], box2[2])
        x2_inter == Min(box1[3], box2[3])
        y2_inter == Min(box1[4], box2[4])
        intersection_area == (x2_inter - x1_inter) * (y2_inter - y1_inter)
        box1_area == (box1[3] - box1[1]) * (box1[4] - box1[2])
        box2_area == (box2[3] - box2[1]) * (box2[4] - box2[2])
        union_area == box1_area + box2_area - intersection_area
    IN  IF x2_inter <= x1_inter \/ y2_inter <= y1_inter
        THEN Percent(0, 1)
        ELSE IF union_area > 0
             THEN Percent(intersection_area * 100, union_area)
             ELSE Percent(0, 1)

calculate_overlap_percentage(box1, box2) ==
    LET x1_inter == Max(box1[1], box2[1])
        y1_inter == Max(box1[2], box2[2])
        x2_inter == Min(box1[3], box2[3])
        y2_inter == Min(box1[4], box2[4])
        intersection_area == (x2_inter - x1_inter) * (y2_inter - y1_inter)
        box1_area == (box1[3] - box1[1]) * (box1[4] - box1[2])
        box2_area == (box2[3] - box2[1]) * (box2[4] - box2[2])
        smaller_area == Min(box1_area, box2_area)
    IN  IF x2_inter <= x1_inter \/ y2_inter <= y1_inter
        THEN Percent(0, 1)
        ELSE IF smaller_area > 0
             THEN Percent(intersection_area * 100, smaller_area)
             ELSE Percent(0, 1)

\* overlap_percent > self.overlap_threshold
Exceeds(p, threshold) == p.num > threshold * p.den

(***************************************************************************)
(* np.argsort(-confidences): the default kind is quicksort, which numpy    *)
(* documents as not stable, so equal confidences come in any order.        *)
(***************************************************************************)
IndexOrders(n) ==
    {p \in [1 .. n -> 1 .. n] : \A a, b \in 1 .. n : a # b => p[a] # p[b]}

argsort_descending(conf) ==
    {p \in IndexOrders(Len(conf)) :
        \A a, b \in 1 .. Len(conf) : a < b => conf[p[a]] >= conf[p[b]]}

(***************************************************************************)
(* filter_overlapping_detections, lines 47-66: the loop over               *)
(* sorted_indices.  keep_current of candidate i against keep_indices.      *)
(***************************************************************************)
\* mutant: the class test of line 56 is missing
keep_current_anyclass(bx, ci, threshold, keep_indices, i) ==
    \A j \in 1 .. Len(keep_indices) :
        ~Exceeds(calculate_overlap_percentage(bx[i], bx[keep_indices[j]]),
                 threshold)

\* mutant: the candidate is compared with the last kept detection only
keep_current_lastonly(bx, ci, threshold, keep_indices, i) ==
    \A j \in 1 .. Len(keep_indices) :
        (j = Len(keep_indices) /\ ci[i] = ci[keep_indices[j]]) =>
            ~Exceeds(calculate_overlap_percentage(bx[i], bx[keep_indices[j]]),
                     threshold)

\* mutant: a ratio equal to the threshold discards the candidate too
keep_current_atleast(bx, ci, threshold, keep_indices, i) ==
    \A j \in 1 .. Len(keep_indices) :
        ci[i] = ci[keep_indices[j]] =>
            ~(calculate_overlap_percentage(bx[i], bx[keep_indices[j]]).num
                >= threshold
                   * calculate_overlap_percentage(bx[i], bx[keep_indices[j]]).den)

\* lines 53-62: the candidate is kept unless a kept detection of its class
\* overlaps it by more than the threshold
keep_current(bx, ci, threshold, keep_indices, i) ==
    \A j \in 1 .. Len(keep_indices) :
        ci[i] = ci[keep_indices[j]] =>
            ~Exceeds(calculate_overlap_percentage(bx[i], bx[keep_indices[j]]),
                     threshold)

RECURSIVE filter_loop(_, _, _, _, _, _)
filter_loop(bx, ci, threshold, order, k, keep_indices) ==
    IF k > Len(order)
    THEN keep_indices
    ELSE filter_loop(bx, ci, threshold, order, k + 1,
                     IF keep_current(bx, ci, threshold, keep_indices, order[k])
                     THEN Append(keep_indices, order[k])
                     ELSE keep_indices)

\* mutant: the class ids are returned without the indexing by keep_indices
filter_overlapping_detections_unindexed(bx, cf, ti, ci, threshold, order) ==
    IF Len(bx) = 0
    THEN [boxes |-> bx, confidences |-> cf, track_ids |-> ti, class_ids |-> ci,
          keep_indices |-> <<>>]
    ELSE LET keep == filter_loop(bx, ci, threshold, order, 1, <<>>)
         IN  [boxes |-> Take(bx, keep), confidences |-> Take(cf, keep),
              track_ids |-> Take(ti, keep),
              class_ids |-> SubSeq(ci, 1, Len(keep)),
              keep_indices |-> keep]

\* lines 35-71: the four arrays indexed by keep_indices; an empty input is
\* returned as it is
filter_overlapping_detections(bx, cf, ti, ci, threshold, order) ==
    IF Len(bx) = 0
    THEN [boxes |-> bx, confidences |-> cf, track_ids |-> ti, class_ids |-> ci,
          keep_indices |-> <<>>]
    ELSE LET keep == filter_loop(bx, ci, threshold, order, 1, <<>>)
         IN  [boxes |-> Take(bx, keep), confidences |-> Take(cf, keep),
              track_ids |-> Take(ti, keep), class_ids |-> Take(ci, keep),
              keep_indices |-> keep]

vars == <<filterVars, analysisVars, mainVars>>

\* no caller of save_detection besides main's loop
NoSavers == <<>>

(***************************************************************************)
(* AnalysisService.  There are two instances: the one DetectionService     *)
(* creates in its __init__ and the one main creates.                       *)
(***************************************************************************)
Services == {"detection_service", "main"}

\* a dict is a function on its keys
EmptyDict == [k \in {} |-> 0]

DictPut(d, k, v) == [x \in DOMAIN d \cup {k} |-> IF x = k THEN v ELSE d[x]]

\* an optional value is the set of its values: {} is None
None == {}

Some(v) == {v}

\* d.get(k), as an optional value
DictGet(d, k) == IF k \in DOMAIN d THEN Some(d[k]) ELSE None

\* a field the regular expression did not find
Absent == "absent"

NoCall == [svc |-> "none", track_id |-> 0]

NoObs == [svc |-> "none", track_id |-> 0, time |-> 0, crop_size |-> 0,
          before |-> 0, dispatched |-> FALSE, returned |-> FALSE,
          result |-> None]

\* AnalysisService.__init__, for both instances, and the clock
AnalysisInit ==
    /\ now = 0
    /\ last_sent_times = [s \in Services |-> EmptyDict]
    /\ track_results = [s \in Services |-> EmptyDict]
    /\ threads = {}
    /\ call = NoCall
    /\ dispatch_log = <<>>
    /\ obs = NoObs

\* self.last_sent_times.get(track_id, 0)
last_sent_get(svc, track_id) ==
    IF track_id \in DOMAIN last_sent_times[svc]
    THEN last_sent_times[svc][track_id]
    ELSE 0

\* mutant: the size of the crop is not looked at
should_dispatch_anycrop(current_time, last_time, crop_size) ==
    current_time - last_time > interval

\* mutant: the interval is not looked at
should_dispatch_anytime(current_time, last_time, crop_size) ==
    crop_size > 0

\* mutant: >= instead of >
should_dispatch_ge(current_time, last_time, crop_size) ==
    current_time - last_time >= interval /\ crop_size > 0

\* the condition of line 68
should_dispatch(current_time, last_time, crop_size) ==
    current_time - last_time > interval /\ crop_size > 0

\* process_detection, lines 61-75: the dispatch decision and the thread
\* start.  detection: [track_id, class_name, crop_size].
process_detection_call(svc, detection, current_time) ==
    LET track_id == detection.track_id
        last_time == last_sent_get(svc, track_id)
        dispatch == should_dispatch(current_time, last_time, detection.crop_size)
        task == Len(dispatch_log) + 1
    IN  /\ call = NoCall
        /\ dispatch => Len(dispatch_log) < MaxDispatch
        /\ IF dispatch
           THEN /\ last_sent_times' =
                       [last_sent_times EXCEPT
                           ![svc] = DictPut(@, track_id, current_time)]
                /\ dispatch_log' =
                       Append(dispatch_log,
                              [svc |-> svc, track_id |-> track_id,
                               damage_type |-> detection.class_name,
                               time |-> current_time])
                /\ threads' = threads \cup {task}
           ELSE UNCHANGED <<last_sent_times, dispatch_log, threads>>
        /\ call' = [svc |-> svc, track_id |-> track_id]
        /\ obs' = [svc |-> svc, track_id |-> track_id, time |-> current_time,
                   crop_size |-> detection.crop_size,
                   before |-> Len(dispatch_log), dispatched |-> dispatch,
                   returned |-> FALSE, result |-> None]
        /\ now' = current_time
        /\ UNCHANGED <<interval, track_results>>

\* mutant: the caller joins the thread it started before it returns
process_detection_return_join ==
    /\ call # NoCall
    /\ obs.dispatched => (obs.before + 1) \notin threads
    /\ obs' = [obs EXCEPT !.returned = TRUE,
                          !.result = DictGet(track_results[call.svc],
                                             call.track_id)]
    /\ call' = NoCall
    /\ UNCHANGED <<now, interval, last_sent_times, track_results, threads,
                   dispatch_log>>

\* mutant: nothing is returned while a thread of the track is running
process_detection_return_pending ==
    /\ call # NoCall
    /\ obs' = [obs EXCEPT
                  !.returned = TRUE,
                  !.result =
                     IF \E task \in threads :
                           /\ dispatch_log[task].svc = call.svc
                           /\ dispatch_log[task].track_id = call.track_id
                     THEN None
                     ELSE DictGet(track_results[call.svc], call.track_id)]
    /\ call' = NoCall
    /\ UNCHANGED <<now, interval, last_sent_times, track_results, threads,
                   dispatch_log>>

\* process_detection, lines 77-80: the read of the slot and the return
process_detection_return ==
    /\ call # NoCall
    /\ obs' = [obs EXCEPT !.returned = TRUE,
                          !.result = DictGet(track_results[call.svc],
                                             call.track_id)]
    /\ call' = NoCall
    /\ UNCHANGED <<now, interval, last_sent_times, track_results, threads,
                   dispatch_log>>

(***************************************************************************)
(* analyze_damage_with_gemini, run by a thread.  The outcome of            *)
(* gemini_model.invoke is an exception or a response; the content of a     *)
(* response, stripped (line 40), is a sequence of lines "field: text".     *)
(***************************************************************************)
Exception == [raised |-> TRUE, content |-> <<>>]

Response(content) == [raised |-> FALSE, content |-> content]

Line(field, text) == [field |-> field, text |-> text]

\* the response of the threads of SpecAnalysis and Spec: the one the
\* prompt asks for (SpecParse has the others)
Responses == {Response(<<Line("Severity", "HIGH"),
                         Line("Recommendation", "Repair immediately.")>>)}

\* the text of a line; the content is stripped and a line without text
\* ends at its colon
RenderLine(l) ==
    IF l.text = "" THEN l.field \o ":" ELSE l.field \o ": " \o l.text

RECURSIVE RenderLines(_)
RenderLines(lines) ==
    IF Len(lines) = 0 THEN ""
    ELSE IF Len(lines) = 1 THEN RenderLine(lines[1])
    ELSE RenderLine(lines[1]) \o "\n" \o RenderLines(Tail(lines))

\* (low|medium|high) under re.IGNORECASE at the start of a text: the word
\* matched, which may be the beginning of a longer word
SeverityWord(text) ==
    CASE text \in {"low", "Low", "LOW"} -> text
      [] text \in {"medium", "Medium", "MEDIUM"} -> text
      [] text \in {"high", "High", "HIGH"} -> text
      [] text = "highest" -> "high"
      [] text = "lowest" -> "low"
      [] OTHER -> Absent

\* line 43, re.search(r'Severity:\s*(low|medium|high)'): group(1) of the
\* first place where the whole pattern matches, or Absent.  \s* runs over
\* a line end, but the next line starts with its field name.
severity_match(content) ==
    LET hits == {k \in 1 .. Len(content) :
                    /\ content[k].field = "Severity"
                    /\ SeverityWord(content[k].text) # Absent}
    IN  IF hits = {} THEN Absent
        ELSE SeverityWord(content[CHOOSE k \in hits :
                                     \A h \in hits : k <= h].text)

\* line 44, re.search(r'Recommendation:\s*(.+)', re.DOTALL): at the first
\* "Recommendation:" that anything follows, \s* runs over blanks and line
\* ends and (.+) takes all of the rest of the content, later lines
\* included; line 47 strips it.  Absent when nothing follows.
recommendation_match(content) ==
    LET hits == {k \in 1 .. Len(content) :
                    /\ content[k].field = "Recommendation"
                    /\ (content[k].text # "" \/ k < Len(content))}
    IN  IF hits = {} THEN Absent
        ELSE LET k == CHOOSE h \in hits : \A g \in hits : h <= g
                 rest == SubSeq(content, k + 1, Len(content))
             IN  IF content[k].text = "" THEN RenderLines(rest)
                 ELSE IF rest = <<>> THEN content[k].text
                 ELSE content[k].text \o "\n" \o RenderLines(rest)

\* str.lower() on the words (low|medium|high) the regex can match
Lower(w) ==
    CASE w \in {"low", "Low", "LOW"} -> "low"
      [] w \in {"medium", "Medium", "MEDIUM"} -> "medium"
      [] w \in {"high", "High", "HIGH"} -> "high"
      [] OTHER -> w

\* lines 46-52 and 55-58: what the thread stores.  task, failed and content
\* are history: the thread that wrote the slot, by which branch, and from
\* which response.
verdict_of(outcome, task) ==
    IF outcome.raised
    THEN [severity |-> "medium", recommendation |-> "Schedule inspection",
          task |-> task, failed |-> TRUE, content |-> outcome.content]
    ELSE [severity |-> IF severity_match(outcome.content) # Absent
                       THEN Lower(severity_match(outcome.content))
                       ELSE "medium",
          recommendation |-> IF recommendation_match(outcome.content) # Absent
                             THEN recommendation_match(outcome.content)
                             ELSE "Schedule inspection",
          task |-> task, failed |-> FALSE, content |-> outcome.content]

\* mutant: no except clause, a thread that fails writes nothing
analyze_damage_with_gemini_unhandled(task, outcome) ==
    /\ task \in threads
    /\ track_results' =
          IF outcome.raised
          THEN track_results
          ELSE [track_results EXCEPT
                   ![dispatch_log[task].svc] =
                       DictPut(@, dispatch_log[task].track_id,
                               verdict_of(outcome, task))]
    /\ threads' = threads \ {task}
    /\ UNCHANGED <<now, interval, last_sent_times, call, dispatch_log, obs>>

\* mutant: a thread does not write over the result of a thread started
\* after it
analyze_damage_with_gemini_ordered(task, outcome) ==
    /\ task \in threads
    /\ LET svc == dispatch_log[task].svc
           track_id == dispatch_log[task].track_id
       IN  track_results' =
              IF /\ track_id \in DOMAIN track_results[svc]
                 /\ track_results[svc][track_id].task > task
              THEN track_results
              ELSE [track_results EXCEPT
                       ![svc] = DictPut(@, track_id,
                                        verdict_of(outcome, task))]
    /\ threads' = threads \ {task}
    /\ UNCHANGED <<now, interval, last_sent_times, call, dispatch_log, obs>>

\* mutant: a thread that fails forgets the dispatch time of its track, so
\* that the next observation asks again
analyze_damage_with_gemini_retry(task, outcome) ==
    /\ task \in threads
    /\ track_results' =
          [track_results EXCEPT
              ![dispatch_log[task].svc] =
                  DictPut(@, dispatch_log[task].track_id,
                          verdict_of(outcome, task))]
    /\ last_sent_times' =
          IF outcome.raised
          THEN [last_sent_times EXCEPT
                   ![dispatch_log[task].svc] =
                       [k \in DOMAIN @ \ {dispatch_log[task].track_id} |-> @[k]]]
          ELSE last_sent_times
    /\ threads' = threads \ {task}
    /\ UNCHANGED <<now, interval, call, dispatch_log, obs>>

\* the thread of task number task ends: the one write to track_results
analyze_damage_with_gemini(task, outcome) ==
    /\ task \in threads
    /\ track_results' =
          [track_results EXCEPT
              ![dispatch_log[task].svc] =
                  DictPut(@, dispatch_log[task].track_id,
                          verdict_of(outcome, task))]
    /\ threads' = threads \ {task}
    /\ UNCHANGED <<now, interval, last_sent_times, call, dispatch_log, obs>>

\* the last clock value followed: two windows of the interval (none when
\* it is zero or negative), and MaxSlack seconds
Horizon == 2 * (IF interval > 0 THEN interval ELSE 0) + MaxSlack

\* the clock advances
Tick ==
    /\ now < Horizon
    /\ now' = now + 1
    /\ UNCHANGED <<interval, last_sent_times, track_results, threads, call,
                   dispatch_log, obs>>

(***************************************************************************)
(* main of run_service before it runs: the services are constructed        *)
(* (lines 13-15), the record store is open and empty.                      *)
(***************************************************************************)
MainIdle ==
    /\ pc = "open_video"
    /\ frame_count = 0
    /\ frame_dets = <<>>
    /\ fi = 1
    /\ detections = <<>>
    /\ mi = 1
    /\ db = {}
    /\ db_open = TRUE

(***************************************************************************)
(* SpecFilter: a frame's raw detections, then one call of the filter.      *)
(* Frames of up to two detections take any box, degenerate ones included;  *)
(* frames of three take well-formed boxes of the pixel row.                *)
(***************************************************************************)
AllBoxes == {<<x1, y1, x2, y2>> : x1 \in 0 .. MaxCoord, y1 \in YCoords,
                                  x2 \in 0 .. MaxCoord, y2 \in YCoords}

RowBoxes == {b \in AllBoxes : b[1] < b[3] /\ b[2] = 0 /\ b[4] = 1}

Degenerate(b) == b[3] <= b[1] \/ b[4] <= b[2]

NoFilterResult == [boxes |-> <<>>, confidences |-> <<>>, track_ids |-> <<>>,
                   class_ids |-> <<>>, keep_indices |-> <<>>]

FilterInit ==
    /\ \/ boxes \in SeqsUpTo(AllBoxes, 2)
       \/ boxes \in [1 .. 3 -> RowBoxes]
    /\ confidences \in [1 .. Len(boxes) -> ConfLevels]
    /\ class_ids \in [1 .. Len(boxes) -> ClassIds]
    /\ track_ids = [k \in 1 .. Len(boxes) |-> k]
    /\ overlap_threshold \in Thresholds
    /\ sorted_indices = <<>>
    /\ filtered = NoFilterResult
    /\ fpc = "call"
    /\ interval = ANALYSIS_INTERVAL
    /\ AnalysisInit
    /\ MainIdle
    /\ id_binding = "integer"
    /\ savers = NoSavers

FilterCall ==
    /\ fpc = "call"
    /\ \E order \in argsort_descending(confidences) :
          /\ sorted_indices' = order
          /\ filtered' = filter_overlapping_detections(
                             boxes, confidences, track_ids, class_ids,
                             overlap_threshold, order)
    /\ fpc' = "returned"
    /\ UNCHANGED <<boxes, confidences, track_ids, class_ids, overlap_threshold>>
    /\ UNCHANGED <<analysisVars, mainVars>>

FilterNext == FilterCall

SpecFilter == FilterInit /\ [][FilterNext]_vars

(***************************************************************************)
(* SpecAnalysis: one AnalysisService (the DetectionService's) called with  *)
(* detections of any track, with an empty or a non-empty crop.             *)
(***************************************************************************)
ClassNames == {"pothole", "broken_edge"}

CropSizes == {0, 1}

AInit ==
    /\ interval \in Intervals
    /\ AnalysisInit
    /\ boxes = <<>> /\ confidences = <<>> /\ track_ids = <<>> /\ class_ids = <<>>
    /\ overlap_threshold = OVERLAP_THRESHOLD
    /\ sorted_indices = <<>>
    /\ filtered = NoFilterResult
    /\ fpc = "call"
    /\ MainIdle
    /\ id_binding = "integer"
    /\ savers = NoSavers

AObserve ==
    /\ \E track_id \in Tracks, crop_size \in CropSizes :
          process_detection_call("detection_service",
              [track_id |-> track_id, class_name |-> "pothole",
               crop_size |-> crop_size],
              now)
    /\ UNCHANGED <<filterVars, mainVars>>

AReturn == process_detection_return /\ UNCHANGED <<filterVars, mainVars>>

AFinish ==
    /\ \E task \in threads, outcome \in Responses \cup {Exception} :
          analyze_damage_with_gemini(task, outcome)
    /\ UNCHANGED <<filterVars, mainVars>>

ATick == Tick /\ UNCHANGED <<filterVars, mainVars>>

ANext == AObserve \/ AReturn \/ AFinish \/ ATick

SpecAnalysis == AInit /\ [][ANext]_vars

\* SpecAnalysis with the scheduling of the threads.  The caller's thread
\* runs on, so process_detection returns, and the clock advances.  A thread
\* of analyze_damage_with_gemini ends when gemini_model.invoke (line 39)
\* returns or raises: the model is constructed with no timeout (lines
\* 12-15) and invoke is called with none, so nothing in the program makes
\* the call end, and no fairness is assumed of AFinish.
SpecAnalysisLive ==
    AInit /\ [][ANext]_vars /\ WF_vars(AReturn) /\ WF_vars(ATick)

(***************************************************************************)
(* SpecParse: the AnalysisService of the DetectionService with the clock   *)
(* past the first interval, and threads that receive any response of up to *)
(* MaxLines lines.                                                         *)
(***************************************************************************)
ParseFields == {"Severity", "Recommendation", "Note"}

ParseTexts == {"HIGH", "low", "highest", "critical", "Repair immediately.", ""}

ParseLines == {Line(field, text) : field \in ParseFields, text \in ParseTexts}

ParseOutcomes ==
    {Response(content) : content \in SeqsUpTo(ParseLines, MaxLines)}
    \cup {Exception}

PInit ==
    /\ interval = ANALYSIS_INTERVAL
    /\ now = ANALYSIS_INTERVAL + 1
    /\ last_sent_times = [s \in Services |-> EmptyDict]
    /\ track_results = [s \in Services |-> EmptyDict]
    /\ threads = {}
    /\ call = NoCall
    /\ dispatch_log = <<>>
    /\ obs = NoObs
    /\ boxes = <<>> /\ confidences = <<>> /\ track_ids = <<>> /\ class_ids = <<>>
    /\ overlap_threshold = OVERLAP_THRESHOLD
    /\ sorted_indices = <<>>
    /\ filtered = NoFilterResult
    /\ fpc = "call"
    /\ MainIdle
    /\ id_binding = "integer"
    /\ savers = NoSavers

PObserve ==
    /\ process_detection_call("detection_service",
          [track_id |-> 1, class_name |-> "pothole", crop_size |-> 1], now)
    /\ UNCHANGED <<filterVars, mainVars>>

PReturn == process_detection_return /\ UNCHANGED <<filterVars, mainVars>>

PFinish ==
    /\ \E task \in threads, outcome \in ParseOutcomes :
          analyze_damage_with_gemini(task, outcome)
    /\ UNCHANGED <<filterVars, mainVars>>

PNext == PObserve \/ PReturn \/ PFinish

SpecParse == PInit /\ [][PNext]_vars

(***************************************************************************)
(* The record store (database_service).                                    *)
(***************************************************************************)
\* json.dumps: the text of a value, told apart from the value
json_dumps(v) == [json |-> v]

\* SELECT ... WHERE track_id = ?
select_by_track_id(table, track_id) == {r \in table : r.track_id = track_id}

Columns == {"track_id", "damage_type", "confidence", "location", "timestamp",
            "recommendations"}

\* get_detection_by_track_id: dict(zip(columns, result)) of the row
\* fetched, over the selected columns (id is not one), or None
get_detection_by_track_id(table, track_id) ==
    LET result == select_by_track_id(table, track_id)
    IN  IF result # {}
        THEN LET row == CHOOSE r \in result : TRUE
             IN  Some([c \in Columns |-> row[c]])
        ELSE None

\* the values the INSERT and the UPDATE statements are given (lines 58-76
\* and 83-101); rec_json is json.dumps(recommendations) if recommendations
\* else None, and a verdict dict is never empty
statement_values(detection, recommendations, datetime_now) ==
    [damage_type |-> detection.class_name,
     confidence |-> detection.confidence,
     location |-> json_dumps(detection.box),
     timestamp |-> datetime_now,
     recommendations |->
        IF recommendations # None
        THEN Some(json_dumps(CHOOSE v \in recommendations : TRUE))
        ELSE None]

\* INSERT INTO detections: AUTOINCREMENT gives the id after the largest
\* one given so far (no row is ever deleted)
insert_detection(table, track_id, values) ==
    table \cup {[id |-> Cardinality(table) + 1, track_id |-> track_id]
                @@ values}

\* UPDATE detections SET ... WHERE track_id = ?
update_detection(table, track_id, values) ==
    {IF r.track_id = track_id
     THEN [id |-> r.id, track_id |-> r.track_id] @@ values
     ELSE r : r \in table}

\* mutant: the row is inserted without the SELECT
save_detection_insert(detection, recommendations, datetime_now) ==
    insert_detection(db, detection.track_id,
        statement_values(detection, recommendations, datetime_now))

\* save_detection, lines 42-55: the table after it.  The track_id is
\* converted with int() in the three statements.
save_detection(detection, recommendations, datetime_now) ==
    LET track_id == detection.track_id
        existing == select_by_track_id(db, track_id)
        values == statement_values(detection, recommendations, datetime_now)
    IN  IF existing # {}
        THEN update_detection(db, track_id, values)
        ELSE insert_detection(db, track_id, values)

(***************************************************************************)
(* DetectionService.process_frame and main (run_service).                  *)
(***************************************************************************)
\* time.time() and datetime.now() in the running pipeline: the clock has
\* advanced by some amount since it was read last
time_time ==
    {t \in now .. Horizon : t \in {0, ANALYSIS_INTERVAL + 1, Horizon}}

FRAME_SKIP_INTERVAL == 3

\* self.class_names[class_id].lower(): the names of the YOLO model
class_name_of(class_id) ==
    CASE class_id = 0 -> "pothole"
      [] class_id = 1 -> "broken_edge"
      [] OTHER -> "crack"

\* frame[y1:y2, x1:x2].size
crop_size_of(box) ==
    IF box[3] > box[1] /\ box[4] > box[2]
    THEN (box[3] - box[1]) * (box[4] - box[2])
    ELSE 0

\* what the tracker reports for a frame: up to two detections, of distinct
\* track ids, as the four parallel lists of lines 126-129
FrameBoxes == {<<0, 0, 2, 1>>, <<1, 0, 1, 1>>}

FrameConfLevels == {90}

FrameClassIds == {0, 2}

TrackerResults ==
    {r \in [ids : SeqsUpTo(Tracks, 2), boxes : SeqsUpTo(FrameBoxes, 2),
            confidences : SeqsUpTo(FrameConfLevels, 2),
            class_ids : SeqsUpTo(FrameClassIds, 2)] :
        /\ Len(r.boxes) = Len(r.ids)
        /\ Len(r.confidences) = Len(r.ids)
        /\ Len(r.class_ids) = Len(r.ids)
        /\ \A a, b \in 1 .. Len(r.ids) : a < b => r.ids[a] < r.ids[b]}

\* lines 17-49: the video opens, or main returns (lines 21 and 31)
OpenVideo ==
    /\ pc = "open_video"
    /\ pc' \in {"read", "done"}
    /\ UNCHANGED <<frame_count, frame_dets, fi, detections, mi, db, db_open,
                   id_binding, savers>>
    /\ UNCHANGED <<filterVars, analysisVars>>

\* lines 52-55: cap.read() fails
VideoEnds ==
    /\ pc = "read"
    /\ pc' = "cleanup"
    /\ UNCHANGED <<frame_count, frame_dets, fi, detections, mi, db, db_open,
                   id_binding, savers>>
    /\ UNCHANGED <<filterVars, analysisVars>>

\* lines 57-59: a frame that is not the FRAME_SKIP_INTERVAL-th is skipped
SkipFrame ==
    /\ pc = "read"
    /\ frame_count < MaxFrames * FRAME_SKIP_INTERVAL
    /\ (frame_count + 1) % FRAME_SKIP_INTERVAL # 0
    /\ frame_count' = frame_count + 1
    /\ UNCHANGED <<pc, frame_dets, fi, detections, mi, db, db_open,
                   id_binding, savers>>
    /\ UNCHANGED <<filterVars, analysisVars>>

\* line 62 and process_frame, lines 117-133: the tracker runs and the
\* filter is applied to what it reports
ProcessFrameStart ==
    /\ pc = "read"
    /\ frame_count < MaxFrames * FRAME_SKIP_INTERVAL
    /\ (frame_count + 1) % FRAME_SKIP_INTERVAL = 0
    /\ frame_count' = frame_count + 1
    /\ \E r \in TrackerResults :
          \E order \in argsort_descending(r.confidences) :
             LET f == filter_overlapping_detections(
                          r.boxes, r.confidences, r.ids, r.class_ids,
                          overlap_threshold, order)
             IN  /\ boxes' = r.boxes
                 /\ confidences' = r.confidences
                 /\ track_ids' = r.ids
                 /\ class_ids' = r.class_ids
                 /\ sorted_indices' = order
                 /\ filtered' = f
                 /\ frame_dets' =
                       [k \in 1 .. Len(f.track_ids) |->
                           [track_id |-> f.track_ids[k], box |-> f.boxes[k],
                            class_id |-> f.class_ids[k],
                            confidence |-> f.confidences[k]]]
    /\ fpc' = "returned"
    /\ fi' = 1
    /\ detections' = <<>>
    /\ pc' = "process_frame"
    /\ UNCHANGED <<mi, db, db_open, id_binding, savers,
                   overlap_threshold>>
    /\ UNCHANGED analysisVars

\* mutant: the class name is not looked at
Recognized_any(d) == TRUE

\* line 139: class_name in ["pothole", "broken_edge"]
Recognized(d) == class_name_of(d.class_id) \in {"pothole", "broken_edge"}

\* lines 135-140: a detection of another class is passed over
PassOverClass ==
    /\ pc = "process_frame"
    /\ fi <= Len(frame_dets)
    /\ ~Recognized(frame_dets[fi])
    /\ fi' = fi + 1
    /\ UNCHANGED <<pc, frame_count, frame_dets, detections, mi, db, db_open,
                   id_binding, savers>>
    /\ UNCHANGED <<filterVars, analysisVars>>

\* lines 135-167: process_detection of the DetectionService's own
\* AnalysisService is called
FrameAnalysisCall ==
    /\ pc = "process_frame"
    /\ fi <= Len(frame_dets)
    /\ Recognized(frame_dets[fi])
    /\ \E current_time \in time_time :
          process_detection_call("detection_service",
             [track_id |-> frame_dets[fi].track_id,
              class_name |-> class_name_of(frame_dets[fi].class_id),
              crop_size |-> crop_size_of(frame_dets[fi].box)],
             current_time)
    /\ pc' = "process_frame_return"
    /\ UNCHANGED <<frame_count, frame_dets, fi, detections, mi, db, db_open,
                   id_binding, savers>>
    /\ UNCHANGED filterVars

\* mutant: the recommendation is read from the slot of the track, not from
\* the dict that process_detection returned
displayed_reread(analysis_result) ==
    IF analysis_result # None
    THEN LET r == CHOOSE v \in analysis_result : TRUE
             slot == track_results["detection_service"]
                                  [frame_dets[fi].track_id]
         IN  [severity |-> r.severity, recommendation |-> slot.recommendation]
    ELSE [severity |-> "low", recommendation |-> "Analyzing..."]

\* lines 169-177: the verdict shown for a detection, read from the dict
\* that process_detection returned
displayed(analysis_result) ==
    IF analysis_result # None
    THEN LET r == CHOOSE v \in analysis_result : TRUE
         IN  [severity |-> r.severity, recommendation |-> r.recommendation]
    ELSE [severity |-> "low", recommendation |-> "Analyzing..."]

\* lines 163-167: it returns the dict in the slot, or None
FrameAnalysisReturn ==
    /\ pc = "process_frame_return"
    /\ process_detection_return
    /\ pc' = "process_frame_merge"
    /\ UNCHANGED <<frame_count, frame_dets, fi, detections, mi, db, db_open,
                   id_binding, savers>>
    /\ UNCHANGED filterVars

\* lines 169-204: the detection is appended with the verdict returned
FrameMerge ==
    /\ pc = "process_frame_merge"
    /\ LET d == frame_dets[fi]
           analysis_result == obs.result
       IN  detections' =
              Append(detections,
                     [track_id |-> d.track_id,
                      class_name |-> class_name_of(d.class_id),
                      box |-> d.box,
                      confidence |-> d.confidence,
                      severity |-> displayed(analysis_result).severity,
                      recommendation |->
                          displayed(analysis_result).recommendation,
                      crop_size |-> crop_size_of(d.box)])
    /\ fi' = fi + 1
    /\ pc' = "process_frame"
    /\ UNCHANGED <<frame_count, frame_dets, mi, db, db_open, id_binding, savers>>
    /\ UNCHANGED <<filterVars, analysisVars>>

\* lines 206-215 and 65: process_frame returns, the loop of main starts
ProcessFrameEnd ==
    /\ pc = "process_frame"
    /\ fi > Len(frame_dets)
    /\ mi' = 1
    /\ pc' = "main_loop"
    /\ UNCHANGED <<frame_count, frame_dets, fi, detections, db, db_open,
                   id_binding, savers>>
    /\ UNCHANGED <<filterVars, analysisVars>>

\* The track_id of a detection is an element of a numpy array (lines 126
\* and 135 of detection_service.py).  save_detection converts it with int()
\* (lines 46, 70, 101); main looks it up as it is (line 68) and
\* get_detection_by_track_id hands it to sqlite3 unconverted (line 125).
\* sqlite3 binds a Python int as an INTEGER; an object that is not an int
\* but exports a buffer, as numpy's integers do, it binds as a BLOB, which
\* compares unequal to every INTEGER of the column.  Which of the two the
\* installed numpy and sqlite3 do is fixed for a run.
Bindings == {"integer", "blob"}

\* a value that no track_id of the table equals
Blob(track_id) == 0 - track_id

bound_parameter(track_id) ==
    IF id_binding = "integer" THEN track_id ELSE Blob(track_id)

\* lines 65-71: the track has a row already
MainExisting ==
    /\ pc = "main_loop"
    /\ mi <= Len(detections)
    /\ get_detection_by_track_id(db, bound_parameter(detections[mi].track_id)) # None
    /\ mi' = mi + 1
    /\ UNCHANGED <<pc, frame_count, frame_dets, fi, detections, db, db_open,
                   id_binding, savers>>
    /\ UNCHANGED <<filterVars, analysisVars>>

\* lines 65-73: it has none, process_detection of main's AnalysisService
\* is called
MainAnalysisCall ==
    /\ pc = "main_loop"
    /\ mi <= Len(detections)
    /\ get_detection_by_track_id(db, bound_parameter(detections[mi].track_id)) = None
    /\ \E current_time \in time_time :
          process_detection_call("main",
             [track_id |-> detections[mi].track_id,
              class_name |-> detections[mi].class_name,
              crop_size |-> detections[mi].crop_size],
             current_time)
    /\ pc' = "main_return"
    /\ UNCHANGED <<frame_count, frame_dets, fi, detections, mi, db, db_open,
                   id_binding, savers>>
    /\ UNCHANGED filterVars

\* line 73: it returns
MainAnalysisReturn ==
    /\ pc = "main_return"
    /\ process_detection_return
    /\ pc' = "save_detection"
    /\ UNCHANGED <<frame_count, frame_dets, fi, detections, mi, db, db_open,
                   id_binding, savers>>
    /\ UNCHANGED filterVars

\* line 76: the detection is saved with what process_detection returned
SaveDetection ==
    /\ pc = "save_detection"
    /\ \E datetime_now \in time_time :
          /\ db' = save_detection(detections[mi], obs.result, datetime_now)
          /\ now' = datetime_now
    /\ mi' = mi + 1
    /\ pc' = "main_loop"
    /\ UNCHANGED <<frame_count, frame_dets, fi, detections, db_open,
                   id_binding, savers>>
    /\ UNCHANGED <<interval, last_sent_times, track_results, threads, call,
                   dispatch_log, obs>>
    /\ UNCHANGED filterVars

\* lines 78-93: the frame is shown; ESC ends the loop.  The lists of the
\* frame are not read again: the next frame assigns them anew.
WaitKey ==
    /\ pc = "main_loop"
    /\ mi > Len(detections)
    /\ pc' \in {"read", "cleanup"}
    /\ frame_dets' = <<>> /\ fi' = 1 /\ detections' = <<>> /\ mi' = 1
    /\ boxes' = <<>> /\ confidences' = <<>> /\ track_ids' = <<>>
    /\ class_ids' = <<>>
    /\ sorted_indices' = <<>>
    /\ filtered' = NoFilterResult
    /\ fpc' = "call"
    /\ UNCHANGED <<frame_count, db, db_open, id_binding, savers,
                   overlap_threshold>>
    /\ UNCHANGED analysisVars

\* lines 96-98: db_service.close()
Cleanup ==
    /\ pc = "cleanup"
    /\ db_open' = FALSE
    /\ UNCHANGED <<id_binding, savers>>
    /\ pc' = "history"
    /\ UNCHANGED <<frame_count, frame_dets, fi, detections, mi, db>>
    /\ UNCHANGED <<filterVars, analysisVars>>

\* lines 101-116: get_detection_history(); sqlite raises ProgrammingError
\* on a closed connection
PrintHistory ==
    /\ pc = "history"
    /\ pc' = IF db_open THEN "done" ELSE "raised"
    /\ UNCHANGED <<frame_count, frame_dets, fi, detections, mi, db, db_open,
                   id_binding, savers>>
    /\ UNCHANGED <<filterVars, analysisVars>>

\* a thread of either AnalysisService ends
ThreadEnds ==
    /\ \E task \in threads, outcome \in Responses \cup {Exception} :
          analyze_damage_with_gemini(task, outcome)
    /\ UNCHANGED <<filterVars, mainVars>>

\* the steps of the thread of main: the frame path
MainNext ==
    \/ OpenVideo
    \/ VideoEnds
    \/ SkipFrame
    \/ ProcessFrameStart
    \/ PassOverClass
    \/ FrameAnalysisCall
    \/ FrameAnalysisReturn
    \/ FrameMerge
    \/ ProcessFrameEnd
    \/ MainExisting
    \/ MainAnalysisCall
    \/ MainAnalysisReturn
    \/ SaveDetection
    \/ WaitKey
    \/ Cleanup
    \/ PrintHistory

Init ==
    /\ interval = ANALYSIS_INTERVAL
    /\ AnalysisInit
    /\ MainIdle
    /\ id_binding \in Bindings
    /\ savers = NoSavers
    /\ boxes = <<>> /\ confidences = <<>> /\ track_ids = <<>> /\ class_ids = <<>>
    /\ overlap_threshold = OVERLAP_THRESHOLD
    /\ sorted_indices = <<>>
    /\ filtered = NoFilterResult
    /\ fpc = "call"

Next == MainNext \/ ThreadEnds

Spec == Init /\ [][Next]_vars

(***************************************************************************)
(* SpecFrame: DetectionService.process_frame alone, called on one          *)
(* processed frame after the other by a caller that does nothing with the  *)
(* detections.                                                             *)
(***************************************************************************)
FrameInit ==
    /\ interval = ANALYSIS_INTERVAL
    /\ AnalysisInit
    /\ boxes = <<>> /\ confidences = <<>> /\ track_ids = <<>> /\ class_ids = <<>>
    /\ overlap_threshold = OVERLAP_THRESHOLD
    /\ sorted_indices = <<>>
    /\ filtered = NoFilterResult
    /\ fpc = "call"
    /\ pc = "read"
    /\ frame_count = FRAME_SKIP_INTERVAL - 1
    /\ frame_dets = <<>>
    /\ fi = 1
    /\ detections = <<>>
    /\ mi = 1
    /\ db = {}
    /\ db_open = TRUE
    /\ id_binding = "integer"
    /\ savers = NoSavers

\* lines 206-215: process_frame returns; the caller goes on to the next
\* frame it processes
FrameReturn ==
    /\ pc = "process_frame"
    /\ fi > Len(frame_dets)
    /\ frame_count' = frame_count + FRAME_SKIP_INTERVAL - 1
    /\ pc' = "read"
    /\ UNCHANGED <<frame_dets, fi, detections, mi, db, db_open, id_binding, savers>>
    /\ UNCHANGED <<filterVars, analysisVars>>

FrameNext ==
    \/ ProcessFrameStart
    \/ PassOverClass
    \/ FrameAnalysisCall
    \/ FrameAnalysisReturn
    \/ FrameMerge
    \/ FrameReturn
    \/ ThreadEnds

SpecFrame == FrameInit /\ [][FrameNext]_vars

\* Spec with its scheduling: the thread of main runs on until main
\* returns or raises.  Nothing is assumed of the threads of
\* analyze_damage_with_gemini (no timeout bounds them).
SpecLive == Init /\ [][Next]_vars /\ WF_vars(MainNext)

(***************************************************************************)
(* SpecStore: the record store alone.  save_detection is called the way    *)
(* main calls it (line 76), with any detection and any verdict or none.    *)
(***************************************************************************)
StoreDetections ==
    {[track_id |-> track_id, class_name |-> class_name, box |-> box,
      confidence |-> confidence, severity |-> "low",
      recommendation |-> "Analyzing...", crop_size |-> crop_size_of(box)] :
        track_id \in Tracks, class_name \in ClassNames, box \in FrameBoxes,
        confidence \in ConfLevels \ {80}}

StoreVerdicts ==
    {None} \cup {Some(verdict_of(outcome, 1)) : outcome \in Responses}

StoreInit ==
    /\ interval = ANALYSIS_INTERVAL
    /\ now = ANALYSIS_INTERVAL + 1
    /\ last_sent_times = [s \in Services |-> EmptyDict]
    /\ track_results = [s \in Services |-> EmptyDict]
    /\ threads = {}
    /\ call = NoCall
    /\ dispatch_log = <<>>
    /\ obs = NoObs
    /\ boxes = <<>> /\ confidences = <<>> /\ track_ids = <<>> /\ class_ids = <<>>
    /\ overlap_threshold = OVERLAP_THRESHOLD
    /\ sorted_indices = <<>>
    /\ filtered = NoFilterResult
    /\ fpc = "call"
    /\ pc = "main_loop"
    /\ frame_count = 0
    /\ frame_dets = <<>>
    /\ fi = 1
    /\ detections = <<>>
    /\ mi = 1
    /\ db = {}
    /\ db_open = TRUE
    /\ id_binding = "integer"
    /\ savers = NoSavers

\* the arguments of the next call
StoreCall ==
    /\ pc = "main_loop"
    /\ \E detection \in StoreDetections, analysis_result \in StoreVerdicts :
          /\ detections' = <<detection>>
          /\ obs' = [NoObs EXCEPT !.result = analysis_result]
    /\ mi' = 1
    /\ pc' = "save_detection"
    /\ UNCHANGED <<frame_count, frame_dets, fi, db, db_open, id_binding, savers>>
    /\ UNCHANGED <<now, interval, last_sent_times, track_results, threads,
                   call, dispatch_log>>
    /\ UNCHANGED filterVars

StoreNext == StoreCall \/ SaveDetection

SpecStore == StoreInit /\ [][StoreNext]_vars

(***************************************************************************)
(* SpecUpsert: two calls of save_detection whose statements interleave,    *)
(* each through a connection of its own to the database file               *)
(* (sqlite3.connect, line 9).  Every statement is committed when it is     *)
(* executed (lines 79 and 104), and a SELECT holds no lock afterwards.     *)
(***************************************************************************)
Savers == 1 .. 2

\* the call of a caller before its SELECT
SaverCall(detection, recommendations) ==
    [pc |-> "select", detection |-> detection,
     recommendations |-> recommendations, existing |-> {}]

UpsertInit ==
    /\ interval = ANALYSIS_INTERVAL
    /\ now = ANALYSIS_INTERVAL + 1
    /\ last_sent_times = [s \in Services |-> EmptyDict]
    /\ track_results = [s \in Services |-> EmptyDict]
    /\ threads = {}
    /\ call = NoCall
    /\ dispatch_log = <<>>
    /\ obs = NoObs
    /\ boxes = <<>> /\ confidences = <<>> /\ track_ids = <<>> /\ class_ids = <<>>
    /\ overlap_threshold = OVERLAP_THRESHOLD
    /\ sorted_indices = <<>>
    /\ filtered = NoFilterResult
    /\ fpc = "call"
    /\ pc = "main_loop"
    /\ frame_count = 0
    /\ frame_dets = <<>>
    /\ fi = 1
    /\ detections = <<>>
    /\ mi = 1
    /\ db = {}
    /\ db_open = TRUE
    /\ id_binding = "integer"
    /\ savers \in [Savers -> {SaverCall(detection, recommendations) :
                                detection \in StoreDetections,
                                recommendations \in StoreVerdicts}]

\* lines 43-47: SELECT id FROM detections WHERE track_id = ?, and fetchone
SaveSelect(c) ==
    /\ savers[c].pc = "select"
    /\ savers' = [savers EXCEPT
                     ![c].existing =
                         select_by_track_id(db, savers[c].detection.track_id),
                     ![c].pc = "write"]
    /\ UNCHANGED <<pc, frame_count, frame_dets, fi, detections, mi, db,
                   db_open, id_binding>>
    /\ UNCHANGED <<filterVars, analysisVars>>

\* lines 49-55: the UPDATE when the SELECT found a row, the INSERT when it
\* found none.  track_id is UNIQUE (line 20): the INSERT of a track_id that
\* is in the table raises sqlite3.IntegrityError, which save_detection does
\* not catch.
SaveWrite(c) ==
    /\ savers[c].pc = "write"
    /\ LET track_id == savers[c].detection.track_id
           values == statement_values(savers[c].detection,
                                      savers[c].recommendations, now)
       IN  IF savers[c].existing # {}
           THEN /\ db' = update_detection(db, track_id, values)
                /\ savers' = [savers EXCEPT ![c].pc = "returned"]
           ELSE IF select_by_track_id(db, track_id) # {}
                THEN /\ db' = db
                     /\ savers' = [savers EXCEPT ![c].pc = "raised"]
                ELSE /\ db' = insert_detection(db, track_id, values)
                     /\ savers' = [savers EXCEPT ![c].pc = "returned"]
    /\ UNCHANGED <<pc, frame_count, frame_dets, fi, detections, mi, db_open,
                   id_binding>>
    /\ UNCHANGED <<filterVars, analysisVars>>

UpsertNext == \E c \in Savers : SaveSelect(c) \/ SaveWrite(c)

SpecUpsert == UpsertInit /\ [][UpsertNext]_vars

(***************************************************************************)
(* Properties of filter_overlapping_detections (SpecFilter).               *)
(* The geometry below is written from the definitions of the glossary,     *)
(* not from calculate_overlap_percentage.                                  *)
(***************************************************************************)
N == Len(boxes)

Returned == fpc = "returned"

Kept(i) == \E j \in 1 .. Len(filtered.keep_indices) : filtered.keep_indices[j] = i

WellFormed(b) == b[3] > b[1] /\ b[4] > b[2]

Area(b) == (b[3] - b[1]) * (b[4] - b[2])

InterWidth(a, b) == Min(a[3], b[3]) - Max(a[1], b[1])

InterHeight(a, b) == Min(a[4], b[4]) - Max(a[2], b[2])

\* the overlap ratio of two well-formed boxes, as a percentage, is above t
RatioAbove(a, b, t) ==
    /\ WellFormed(a) /\ WellFormed(b)
    /\ InterWidth(a, b) > 0 /\ InterHeight(a, b) > 0
    /\ 100 * InterWidth(a, b) * InterHeight(a, b) > t * Min(Area(a), Area(b))

Inside(inner, outer) ==
    /\ outer[1] <= inner[1] /\ inner[3] <= outer[3]
    /\ outer[2] <= inner[2] /\ inner[4] <= outer[4]

\* a same-class pair (i, j) over the threshold, i of the higher confidence
SuppressingPair(i, j) ==
    /\ i # j
    /\ class_ids[i] = class_ids[j]
    /\ confidences[i] > confidences[j]
    /\ RatioAbove(boxes[i], boxes[j], overlap_threshold)

\* no two detections of the frame have the same confidence, so that
\* np.argsort has one possible result
TieFree == \A i, j \in 1 .. N : i # j => confidences[i] # confidences[j]

\* C1 as stated: of every same-class pair over the threshold the
\* higher-confidence detection is returned and the lower-confidence one is
\* not, chained overlaps included.  (Stated on the frames without equal
\* confidences: it fails whatever the order of ties.)
C1_EveryPairResolved ==
    (Returned /\ TieFree) =>
        \A i, j \in 1 .. N : SuppressingPair(i, j) => Kept(i) /\ ~Kept(j)

\* C1 amended: of every same-class pair over the threshold whose
\* higher-confidence detection is returned, the lower-confidence one is not
\* returned (a detection that was itself suppressed suppresses nothing).
C1_KeptSuppressesLower ==
    Returned =>
        \A i, j \in 1 .. N : SuppressingPair(i, j) /\ Kept(i) => ~Kept(j)

\* a chain: a over b, b over c, a not over c; b is suppressed and c survives
C1_Witness ==
    /\ Returned
    /\ \E a, b, c \in 1 .. N :
          /\ SuppressingPair(a, b) /\ SuppressingPair(b, c)
          /\ ~RatioAbove(boxes[a], boxes[c], overlap_threshold)
          /\ Kept(a) /\ ~Kept(b) /\ Kept(c)

\* C2: every discarded detection has a kept detection of the same class,
\* of confidence >= its own, whose overlap with it is above the threshold;
\* so two detections of different classes that no same-class detection
\* overlaps both survive, identical boxes included.
C2_DiscardedOnlyBySameClass ==
    Returned =>
        /\ \A d \in 1 .. N : ~Kept(d) =>
              \E k \in 1 .. N :
                 /\ Kept(k) /\ k # d
                 /\ class_ids[k] = class_ids[d]
                 /\ confidences[k] >= confidences[d]
                 /\ RatioAbove(boxes[k], boxes[d], overlap_threshold)
        /\ \A i, j \in 1 .. N :
              (/\ class_ids[i] # class_ids[j]
               /\ \A k \in 1 .. N :
                     (k # i /\ class_ids[k] = class_ids[i])
                        => ~RatioAbove(boxes[k], boxes[i], overlap_threshold)
               /\ \A k \in 1 .. N :
                     (k # j /\ class_ids[k] = class_ids[j])
                        => ~RatioAbove(boxes[k], boxes[j], overlap_threshold))
              => Kept(i) /\ Kept(j)

\* two identical well-formed boxes of different classes survive while a
\* third detection is discarded
C2_Witness ==
    /\ Returned
    /\ \E i, j, d \in 1 .. N :
          /\ class_ids[i] # class_ids[j] /\ boxes[i] = boxes[j]
          /\ WellFormed(boxes[i])
          /\ Kept(i) /\ Kept(j) /\ ~Kept(d)

\* a well-formed box j inside a same-class box i of higher confidence
NestedPair(i, j) ==
    /\ i # j
    /\ class_ids[i] = class_ids[j]
    /\ confidences[i] > confidences[j]
    /\ WellFormed(boxes[j])
    /\ Inside(boxes[j], boxes[i])

\* the scenario of the specification: (0,0,10,10) conf 0.9 and (1,1,9,9)
\* conf 0.6, same class, threshold 50
ScenarioNested ==
    filter_overlapping_detections(
        << <<0, 0, 10, 10>>, <<1, 1, 9, 9>> >>, <<90, 60>>, <<1, 2>>, <<0, 0>>,
        OVERLAP_THRESHOLD, <<1, 2>>)

\* C3 as stated: a well-formed box inside a same-class box of higher
\* confidence has ratio 100% and is suppressed for every threshold < 100.
\* (Stated on the frames without equal confidences.)
C3_NestedAlwaysSuppressed ==
    (Returned /\ TieFree) =>
        \A i, j \in 1 .. N : (NestedPair(i, j) /\ overlap_threshold < 100)
            => ~Kept(j)

\* C3 amended: the ratio is intersection over the smaller box, so such a
\* nested box has ratio 100%, and it is suppressed for every threshold < 100
\* whenever the enclosing box is itself kept; the scenario yields only the
\* first detection.
C3_NestedSuppressedByKept ==
    /\ \A i, j \in 1 .. N : NestedPair(i, j) =>
          LET p == calculate_overlap_percentage(boxes[j], boxes[i])
          IN  p.den > 0 /\ p.num = 100 * p.den
    /\ Returned =>
          \A i, j \in 1 .. N :
             (NestedPair(i, j) /\ overlap_threshold < 100 /\ Kept(i))
                => ~Kept(j)
    /\ ScenarioNested.track_ids = <<1>>

\* a strictly smaller nested box is suppressed by its kept enclosing box
C3_Witness ==
    /\ Returned
    /\ \E i, j \in 1 .. N :
          /\ NestedPair(i, j) /\ Area(boxes[j]) < Area(boxes[i])
          /\ overlap_threshold >= OVERLAP_THRESHOLD
          /\ Kept(i) /\ ~Kept(j)

\* C4: with a box of zero or negative width or height in the pair the
\* overlap is 0.0 and nothing is divided by zero; a degenerate box is never
\* suppressed and never suppresses, whatever the threshold (>= 0).
C4_DegenerateNeverSuppresses ==
    /\ \A i, j \in 1 .. N :
          LET p == calculate_overlap_percentage(boxes[i], boxes[j])
          IN  /\ p.den > 0
              /\ (Degenerate(boxes[i]) \/ Degenerate(boxes[j])) => p.num = 0
    /\ Returned =>
          /\ \A i \in 1 .. N : Degenerate(boxes[i]) => Kept(i)
          /\ \A d \in 1 .. N : ~Kept(d) =>
                \E k \in 1 .. N :
                   /\ Kept(k) /\ ~Degenerate(boxes[k])
                   /\ class_ids[k] = class_ids[d]
                   /\ RatioAbove(boxes[k], boxes[d], overlap_threshold)

\* two same-class boxes of negative width and height, and a degenerate box
\* within a well-formed one: all are returned at threshold 0
C4_Witness ==
    /\ Returned
    /\ overlap_threshold = 0
    /\ N = 2
    /\ class_ids[1] = class_ids[2]
    /\ Kept(1) /\ Kept(2)
    /\ \/ /\ boxes[1][3] < boxes[1][1] /\ boxes[1][4] < boxes[1][2]
          /\ boxes[2] = boxes[1]
       \/ /\ Degenerate(boxes[1]) /\ WellFormed(boxes[2])
          /\ Inside(boxes[1], boxes[2])

\* C5 as stated: the output is ordered by confidence descending, equal
\* confidences are processed and returned in their input order, and of two
\* equal-confidence same-class overlapping detections the first of the
\* input is the one kept.
C5_StableTieBreak ==
    Returned =>
        /\ \A a, b \in 1 .. Len(filtered.keep_indices) : a < b =>
              /\ filtered.confidences[a] >= filtered.confidences[b]
              /\ filtered.confidences[a] = filtered.confidences[b]
                    => filtered.keep_indices[a] < filtered.keep_indices[b]
        /\ \A a, b \in 1 .. N : a < b =>
              (confidences[a] = confidences[b] =>
                  \E x, y \in 1 .. N :
                      x < y /\ sorted_indices[x] = a /\ sorted_indices[y] = b)
        /\ \A i, j \in 1 .. N :
              (/\ i < j /\ N = 2
               /\ confidences[i] = confidences[j]
               /\ class_ids[i] = class_ids[j]
               /\ RatioAbove(boxes[i], boxes[j], overlap_threshold))
              => Kept(i) /\ ~Kept(j)

(***************************************************************************)
(* Properties of the throttle of process_detection (SpecAnalysis).         *)
(***************************************************************************)
\* the latest call is one of process_detection with a non-empty crop
Observed == obs.svc # "none" /\ obs.crop_size > 0

\* the threads started for the observed track, by the observed service,
\* before the latest call
Prior ==
    {i \in 1 .. obs.before :
        /\ dispatch_log[i].svc = obs.svc
        /\ dispatch_log[i].track_id = obs.track_id}

\* the time of the latest of them
PriorTime ==
    LET last == CHOOSE i \in Prior : \A j \in Prior : j <= i
    IN  dispatch_log[last].time

\* C6: a track that was dispatched before and is observed with a non-empty
\* crop is dispatched again iff t - last_dispatch_time > ANALYSIS_INTERVAL,
\* strictly; so any two dispatches of a track by one AnalysisService are
\* more than one interval apart.
C6_ThrottleStrict ==
    /\ (Observed /\ Prior # {}) =>
          (obs.dispatched <=> obs.time - PriorTime > interval)
    /\ \A i, j \in 1 .. Len(dispatch_log) :
          (/\ i < j
           /\ dispatch_log[i].svc = dispatch_log[j].svc
           /\ dispatch_log[i].track_id = dispatch_log[j].track_id)
          => dispatch_log[j].time - dispatch_log[i].time > interval

\* a track dispatched at t0 is dispatched again at t0 + ANALYSIS_INTERVAL + 1
C6_Witness ==
    /\ Observed /\ Prior # {}
    /\ interval = ANALYSIS_INTERVAL
    /\ obs.time - PriorTime = ANALYSIS_INTERVAL + 1
    /\ obs.dispatched

\* C7 as stated: the first process_detection call for a track that was
\* never dispatched, with a non-empty crop, dispatches at every time t,
\* t <= ANALYSIS_INTERVAL included.
C7_NeverDispatchedIsEligible ==
    (Observed /\ Prior = {} /\ interval = ANALYSIS_INTERVAL) => obs.dispatched

\* C9 as stated: with a zero or negative interval every observation with a
\* non-empty crop dispatches, two consecutive observations of a track with
\* the same timestamp included.  (Stated for the tracks dispatched before.)
C9_EveryObservationDispatches ==
    (Observed /\ Prior # {} /\ interval <= 0) => obs.dispatched

\* C9 amended: with a negative interval every observation with a non-empty
\* crop dispatches, a repeated timestamp included; with a zero interval an
\* observation of a track dispatched before dispatches iff its time is
\* strictly later than that dispatch, so a repeated timestamp does not.
C9_ZeroIntervalNeedsLaterTime ==
    /\ (Observed /\ interval < 0) => obs.dispatched
    /\ (Observed /\ interval = 0 /\ Prior # {}) =>
          (obs.dispatched <=> obs.time > PriorTime)

\* zero interval: the second observation at the timestamp of the dispatch
\* does not dispatch
C9_Witness ==
    /\ Observed /\ Prior # {}
    /\ interval = 0
    /\ obs.time = PriorTime
    /\ ~obs.dispatched

(***************************************************************************)
(* Properties of the running pipeline (Spec).                              *)
(***************************************************************************)
\* C8 as stated: in the running pipeline at most one enrichment request
\* per track is dispatched within any window of length ANALYSIS_INTERVAL,
\* the dispatches of all AnalysisService instances counted: two dispatches
\* of one track are at least ANALYSIS_INTERVAL apart.
C8_OneDispatchPerWindow ==
    \A i, j \in 1 .. Len(dispatch_log) :
       (i < j /\ dispatch_log[i].track_id = dispatch_log[j].track_id)
       => dispatch_log[j].time - dispatch_log[i].time >= ANALYSIS_INTERVAL

\* main has returned or has raised
Terminated == pc \in {"done", "raised"}

\* the next step of main is a call that the bound on the threads of a run
\* may cut off
AtDispatchBound ==
    Len(dispatch_log) = MaxDispatch /\ pc \in {"process_frame", "main_loop"}

\* C10: the frame path never waits on an enrichment task: whatever threads
\* are in flight, the next step of main can be taken; process_detection
\* returns while the thread it started is running, and further detections
\* and frames are processed.
C10_FramePathNeverWaits ==
    (~Terminated /\ ~AtDispatchBound) => ENABLED MainNext

\* in the second processed frame process_detection has started a thread,
\* an earlier thread is still running too, and it can return
C10_Witness ==
    /\ pc = "process_frame_return"
    /\ frame_count = 2 * FRAME_SKIP_INTERVAL
    /\ obs.dispatched /\ ~obs.returned
    /\ (obs.before + 1) \in threads
    /\ Cardinality(threads) >= 2
    /\ ENABLED MainNext

(***************************************************************************)
(* Properties of the enrichment threads (SpecAnalysis).                    *)
(***************************************************************************)
\* the threads that have ended
Completed == (1 .. Len(dispatch_log)) \ threads

\* the slot a thread writes
SlotOf(task) == [svc |-> dispatch_log[task].svc,
                 track_id |-> dispatch_log[task].track_id]

Fallback(v) ==
    v.severity = "medium" /\ v.recommendation = "Schedule inspection"

\* C11: a thread that ends leaves in the slot of its track the pair it
\* wrote, in place of what was there; a thread that failed leaves exactly
\* {medium, Schedule inspection}; the call in progress on the frame path
\* is not touched.  So the slot of a track whose thread has ended is never
\* absent.
C11_FailureWritesFallback ==
    [][\A task \in threads :
          task \notin threads' =>
             LET slot == SlotOf(task)
             IN  /\ slot.track_id \in DOMAIN track_results'[slot.svc]
                 /\ LET v == track_results'[slot.svc][slot.track_id]
                    IN  /\ v.task = task
                        /\ v.failed => Fallback(v)
                        /\ DOMAIN v = {"severity", "recommendation",
                                       "task", "failed", "content"}
                 /\ call' = call /\ obs' = obs /\ pc' = pc]_vars

\* the second thread of a track failed after the first had ended: the
\* fallback pair is in the slot
C11_Witness ==
    /\ Len(dispatch_log) = 2
    /\ SlotOf(1) = SlotOf(2)
    /\ Completed = {1, 2}
    /\ LET v == track_results[SlotOf(2).svc][SlotOf(2).track_id]
       IN  v.task = 2 /\ v.failed /\ Fallback(v)

\* C12 as stated: every thread that was started ends, with a write to the
\* slot of its track: the external call is bounded by a timeout.
C12_EveryTaskTerminates ==
    \A task \in 1 .. MaxDispatch :
       (task \in threads) ~> (task \in Completed)

(***************************************************************************)
(* Properties of the parsing of a response (SpecParse).                    *)
(***************************************************************************)
\* the verdicts in the slots
Stored ==
    UNION {Range(track_results[svc]) : svc \in Services}

\* the text of the first line of a field, Absent when there is none
FieldText(content, field) ==
    LET hits == {k \in 1 .. Len(content) : content[k].field = field}
    IN  IF hits = {} THEN Absent
        ELSE content[CHOOSE k \in hits : \A h \in hits : k <= h].text

\* C13 as stated: of a response the stored severity is the lower-cased
\* Severity field when that is low, medium or high in any case, and
\* "medium" otherwise; the stored recommendation is the text of the
\* Recommendation field when present, and "Schedule inspection" otherwise;
\* every stored severity is low, medium or high.
C13_ParsedPerField ==
    \A v \in Stored :
       /\ v.severity \in {"low", "medium", "high"}
       /\ ~v.failed =>
             LET sev == FieldText(v.content, "Severity")
                 rec == FieldText(v.content, "Recommendation")
             IN  /\ v.severity = IF Lower(sev) \in {"low", "medium", "high"}
                                 THEN Lower(sev) ELSE "medium"
                 /\ v.recommendation = IF rec \notin {Absent, ""}
                                       THEN rec ELSE "Schedule inspection"

(***************************************************************************)
(* Properties of the record store (SpecStore).                             *)
(***************************************************************************)
\* save_detection is running, and has returned
Saving == pc = "save_detection"

Handled == pc \in {"main_loop", "save_detection"} /\ mi' = mi + 1

NullVerdict(track_id) ==
    \A row \in select_by_track_id(db, track_id) : row.recommendations = None

\* main is through with a frame in which process_frame got for the track
\* the verdict of a thread that had ended
ObservedAfterCompletion(track_id) ==
    /\ pc = "main_loop" /\ mi > Len(detections)
    /\ \E i \in 1 .. Len(detections) :
          /\ detections[i].track_id = track_id
          /\ detections[i].recommendation # "Analyzing..."

\* the step of main that comes next is cut off by the bound on the threads
CutOff == ~Terminated /\ ~ENABLED MainNext

\* C16 as stated: when a thread for a track has ended and the track is
\* observed in a processed frame afterwards, the row of the track
\* eventually holds a verdict: it does not stay null for ever.
C16_PersistedVerdictConverges ==
    \A track_id \in Tracks :
       (ObservedAfterCompletion(track_id) /\ NullVerdict(track_id))
       ~> (~NullVerdict(track_id) \/ CutOff)

(***************************************************************************)
(* Properties of the verdict slots (SpecAnalysis).                         *)
(***************************************************************************)
\* the thread whose result is in the slot that task writes, 0 when the
\* slot is empty
WriterOf(results, task) ==
    LET slot == SlotOf(task)
    IN  IF slot.track_id \in DOMAIN results[slot.svc]
        THEN results[slot.svc][slot.track_id].task
        ELSE 0

\* C17 as stated: a slot never holds the result of a thread started before
\* another thread of the same track that has ended.
C17_ReplacedOnlyByLaterDispatch ==
    \A task \in Completed : WriterOf(track_results, task) >= task

\* C17 amended: the last thread to end wins, whatever the order in which
\* the threads were started: the thread that ends puts its result in the
\* slot, the other slots stay as they are, and nothing else writes a slot.
C17_LastCompletionWins ==
    [][/\ \A task \in threads \ threads' :
             /\ WriterOf(track_results', task) = task
             /\ \A svc \in Services :
                   \A k \in DOMAIN track_results[svc] :
                      [svc |-> svc, track_id |-> k] # SlotOf(task)
                      => /\ k \in DOMAIN track_results'[svc]
                         /\ track_results'[svc][k] = track_results[svc][k]
       /\ threads' = threads => track_results' = track_results]_vars

\* the first thread of a track ended after the second: its result is in
\* the slot
C17_Witness ==
    /\ Len(dispatch_log) = 2
    /\ SlotOf(1) = SlotOf(2)
    /\ Completed = {1, 2}
    /\ WriterOf(track_results, 2) = 1

(***************************************************************************)
(* Properties of what process_frame shows (SpecFrame).                     *)
(***************************************************************************)
\* the (severity, recommendation) pairs that a thread can write
CompletionPairs ==
    {<<verdict_of(outcome, 1).severity, verdict_of(outcome, 1).recommendation>> :
        outcome \in Responses \cup {Exception}}

\* C18: whatever threads of the track end while process_frame deals with a
\* detection, the severity and the recommendation it takes from what
\* process_detection returned are those of one thread's write (or the
\* defaults when nothing was returned), never the severity of one write
\* with the recommendation of another.
C18_PairFromOneCompletion ==
    \A i \in 1 .. Len(detections) :
       \/ <<detections[i].severity, detections[i].recommendation>>
             = <<"low", "Analyzing...">>
       \/ <<detections[i].severity, detections[i].recommendation>>
             \in CompletionPairs

\* a detection was appended with the pair process_detection had returned
\* while another thread of the track had since put another pair in the slot
C18_Witness ==
    /\ pc = "process_frame"
    /\ Len(detections) > 0
    /\ LET d == detections[Len(detections)]
           slot == track_results["detection_service"]
       IN  /\ d.track_id \in DOMAIN slot
           /\ <<d.severity, d.recommendation>> \in CompletionPairs
           /\ slot[d.track_id].recommendation # d.recommendation
           /\ slot[d.track_id].severity # d.severity

(***************************************************************************)
(* Properties of what main persists (Spec).                                *)
(***************************************************************************)
\* the row holds the verdict that the except branch of a thread wrote
HoldsFallback(row) ==
    /\ row.recommendations # None
    /\ \A rec_json \in row.recommendations : rec_json.json.failed

\* C19 as stated: no row of the detections table holds a verdict written
\* by the failure branch of a thread, whenever the thread ends relative to
\* main's read of the slot.
C19_FallbackNeverPersisted ==
    \A row \in db : ~HoldsFallback(row)

(***************************************************************************)
(* The output of filter_overlapping_detections at the threshold            *)
(* (SpecFilter).                                                           *)
(***************************************************************************)
\* the overlap ratio of detections i and j, as the code computes it
overlap_percent(i, j) == calculate_overlap_percentage(boxes[i], boxes[j])

\* the place of detection i in sorted_indices
PlaceOf(i) == CHOOSE k \in 1 .. N : sorted_indices[k] = i

\* C20: no two returned detections of one class have an overlap ratio
\* strictly above the threshold, and a candidate whose ratio with every
\* same-class detection kept before it is at most the threshold, the
\* threshold itself included, is returned.
C20_KeptWithinThreshold ==
    Returned =>
        /\ \A i, j \in 1 .. N :
              (i # j /\ Kept(i) /\ Kept(j) /\ class_ids[i] = class_ids[j])
                 => /\ ~Exceeds(overlap_percent(i, j), overlap_threshold)
                    /\ ~RatioAbove(boxes[i], boxes[j], overlap_threshold)
        /\ \A i \in 1 .. N :
              (\A j \in 1 .. N :
                  (/\ Kept(j) /\ PlaceOf(j) < PlaceOf(i)
                   /\ class_ids[j] = class_ids[i])
                     => overlap_percent(i, j).num
                           <= overlap_threshold * overlap_percent(i, j).den)
                 => Kept(i)

\* two overlapping detections of one class whose ratio is exactly the
\* threshold are both returned
C20_Witness ==
    /\ Returned
    /\ \E i, j \in 1 .. N :
          /\ i # j /\ class_ids[i] = class_ids[j]
          /\ overlap_percent(i, j).num > 0
          /\ overlap_percent(i, j).num
                = overlap_threshold * overlap_percent(i, j).den
          /\ Kept(i) /\ Kept(j)

(***************************************************************************)
(* The output of filter_overlapping_detections as a selection of its       *)
(* input (SpecFilter).                                                     *)
(***************************************************************************)
\* C21: the output is a selection of the input: every input index is at
\* most once in keep_indices, the four returned lists have one entry per
\* kept index and the box, confidence, track id and class id at a position
\* are those of one input detection; an empty input is returned unchanged.
C21_OutputIsSelection ==
    Returned =>
        LET keep == filtered.keep_indices
        IN  /\ \A j \in 1 .. Len(keep) : keep[j] \in 1 .. N
            /\ \A j, k \in 1 .. Len(keep) : j # k => keep[j] # keep[k]
            /\ Len(filtered.boxes) = Len(keep)
            /\ Len(filtered.confidences) = Len(keep)
            /\ Len(filtered.track_ids) = Len(keep)
            /\ Len(filtered.class_ids) = Len(keep)
            /\ \A j \in 1 .. Len(keep) :
                  /\ filtered.boxes[j] = boxes[keep[j]]
                  /\ filtered.confidences[j] = confidences[keep[j]]
                  /\ filtered.track_ids[j] = track_ids[keep[j]]
                  /\ filtered.class_ids[j] = class_ids[keep[j]]
            /\ N = 0 =>
                  /\ filtered.boxes = boxes
                  /\ filtered.confidences = confidences
                  /\ filtered.track_ids = track_ids
                  /\ filtered.class_ids = class_ids

\* of three detections of two classes one is discarded and the other two
\* are returned in another order than they came in
C21_Witness ==
    /\ Returned
    /\ N = 3
    /\ Len(filtered.keep_indices) = 2
    /\ filtered.keep_indices[1] > filtered.keep_indices[2]
    /\ filtered.class_ids[1] # filtered.class_ids[2]
    /\ filtered.boxes[1] # filtered.boxes[2]

(***************************************************************************)
(* Properties of last_sent_times (SpecAnalysis).                           *)
(***************************************************************************)
\* the threads started by a service for a track
DispatchesOf(svc, track_id) ==
    {i \in 1 .. Len(dispatch_log) :
        dispatch_log[i].svc = svc /\ dispatch_log[i].track_id = track_id}

\* thread i failed and its fallback is in the slot of its track
FailedInSlot(i) ==
    /\ i \in Completed
    /\ WriterOf(track_results, i) = i
    /\ track_results[SlotOf(i).svc][SlotOf(i).track_id].failed

\* C22: last_sent_times of a track is written by the dispatch decision
\* only, with the time of the call and in the step that starts the thread,
\* and the end of a thread, failed or not, leaves it as it is: it is at any
\* moment the time of the last dispatch of the track.  So after a thread
\* that failed every later dispatch of the track is more than one interval
\* after the time the failed one was submitted.
C22_WrittenOnlyByDispatch ==
    /\ [](\A svc \in Services, track_id \in Tracks :
             /\ track_id \in DOMAIN last_sent_times[svc]
                   <=> DispatchesOf(svc, track_id) # {}
             /\ \A i \in DispatchesOf(svc, track_id) :
                   (\A j \in DispatchesOf(svc, track_id) : j <= i)
                      => last_sent_times[svc][track_id] = dispatch_log[i].time)
    /\ [](\A i, j \in 1 .. Len(dispatch_log) :
             (FailedInSlot(i) /\ i < j /\ SlotOf(i) = SlotOf(j))
                => dispatch_log[j].time - dispatch_log[i].time > interval)
    /\ [][/\ threads \ threads' # {} => last_sent_times' = last_sent_times
          /\ last_sent_times' # last_sent_times
                => /\ Len(dispatch_log') = Len(dispatch_log) + 1
                   /\ Len(dispatch_log') \in threads'
                   /\ obs'.dispatched
                   /\ last_sent_times'[obs'.svc][obs'.track_id] = obs'.time]_vars

\* a thread of the track failed, and the track is observed again within
\* the interval of that dispatch: no thread is started
C22_Witness ==
    /\ Observed /\ ~obs.dispatched
    /\ interval = ANALYSIS_INTERVAL
    /\ Prior # {}
    /\ \E i \in Prior : FailedInSlot(i)
    /\ obs.time > PriorTime
    /\ last_sent_times[obs.svc][obs.track_id] = PriorTime

(***************************************************************************)
(* process_detection with an empty crop (SpecAnalysis).                    *)
(***************************************************************************)
\* the time the test of line 68 compares with for the observed track
LastTimeBefore == IF Prior = {} THEN 0 ELSE PriorTime

\* C23: a call of process_detection with an empty crop starts no thread
\* and leaves last_sent_times and the slots as they are, and it returns
\* (nothing in it raises); so an observation with a non-empty crop is
\* dispatched iff it is more than one interval after the last dispatch of
\* its track, whatever empty crops were observed in between.
C23_EmptyCropChangesNothing ==
    /\ [][(call = NoCall /\ call' # NoCall /\ obs'.crop_size = 0)
             => /\ ~obs'.dispatched
                /\ threads' = threads
                /\ dispatch_log' = dispatch_log
                /\ last_sent_times' = last_sent_times
                /\ track_results' = track_results]_vars
    /\ []((call # NoCall /\ obs.crop_size = 0) => ENABLED AReturn)
    /\ [](Observed => (obs.dispatched <=> obs.time - LastTimeBefore > interval))

\* an empty crop of a track observed more than one interval after the
\* dispatch of the track: the call has returned and nothing was started
C23_Witness ==
    /\ obs.svc # "none" /\ obs.crop_size = 0 /\ obs.returned
    /\ interval = ANALYSIS_INTERVAL
    /\ Prior # {}
    /\ obs.time - PriorTime > interval
    /\ ~obs.dispatched
    /\ Len(dispatch_log) = obs.before
    /\ last_sent_times[obs.svc][obs.track_id] = PriorTime

(***************************************************************************)
(* The slot and what process_detection returns (SpecAnalysis).             *)
(***************************************************************************)
\* C24: the slot of a track holds what the thread of the track that ended
\* last wrote, whichever was started first, and is absent iff no thread of
\* the track has ended; process_detection returns the slot as it is when
\* it returns, None when it is absent.
C24_SlotIsLastCompletion ==
    /\ [](\A svc \in Services, track_id \in Tracks :
             /\ track_id \in DOMAIN track_results[svc]
                   <=> DispatchesOf(svc, track_id) \cap Completed # {}
             /\ track_id \in DOMAIN track_results[svc]
                   => track_results[svc][track_id].task
                         \in DispatchesOf(svc, track_id) \cap Completed)
    /\ [][\A task \in threads \ threads' :
             \E outcome \in Responses \cup {Exception} :
                track_results'[SlotOf(task).svc][SlotOf(task).track_id]
                   = verdict_of(outcome, task)]_vars
    /\ [][(call # NoCall /\ call' = NoCall)
             => /\ obs'.returned
                /\ obs'.result = DictGet(track_results'[call.svc],
                                         call.track_id)
                /\ track_results' = track_results]_vars

\* the thread started first ended last, and process_detection has returned
\* its result for the track
C24_Witness ==
    /\ Len(dispatch_log) = 2
    /\ SlotOf(1) = SlotOf(2)
    /\ Completed = {1, 2}
    /\ call = NoCall /\ obs.returned
    /\ obs.svc = SlotOf(1).svc /\ obs.track_id = SlotOf(1).track_id
    /\ obs.result # None
    /\ \A v \in obs.result : v.task = 1

(***************************************************************************)
(* What process_frame shows before a verdict is there (SpecFrame).         *)
(***************************************************************************)
\* C25 as stated: a detection that process_frame emits for a track of
\* which no thread has ended carries the fallback verdict, severity medium
\* and the recommendation of an inspection.
C25_PendingShowsFallback ==
    \A i \in 1 .. Len(detections) :
       detections[i].track_id \notin DOMAIN track_results["detection_service"]
          => Fallback(detections[i])

(***************************************************************************)
(* Detections of other classes in the pipeline (Spec).                     *)
(***************************************************************************)
DamageNames == {"pothole", "broken_edge"}

\* the tracker's detection k of the frame is of a damage class
IsDamage(k) == class_name_of(class_ids[k]) \in DamageNames

\* the positions of the damage-class detections in the tracker's lists
DamageIdx == SelectSeq([k \in 1 .. N |-> k], IsDamage)

PosIn(seq, v) == CHOOSE k \in 1 .. Len(seq) : seq[k] = v

\* the order argsort gave, of the damage-class detections alone
DamageOrder ==
    LET o == SelectSeq(sorted_indices, IsDamage)
    IN  [j \in 1 .. Len(o) |-> PosIn(DamageIdx, o[j])]

\* the filter applied to the frame without the detections of other classes
FilteredDamageOnly ==
    filter_overlapping_detections(
        Take(boxes, DamageIdx), Take(confidences, DamageIdx),
        Take(track_ids, DamageIdx), Take(class_ids, DamageIdx),
        overlap_threshold, DamageOrder)

\* process_frame is through with the detections of the frame
FrameEmitted ==
    /\ fpc = "returned"
    /\ \/ pc = "process_frame" /\ fi > Len(frame_dets)
       \/ pc \in {"main_loop", "main_return", "save_detection"}

\* C26: a detection of a class other than pothole and broken_edge is not
\* emitted by process_frame, no thread is started for it and no row is
\* written for it, and the detections process_frame emits for a frame are
\* those the filter leaves of the frame's damage-class detections alone.
C26_OtherClassesLeaveNoTrace ==
    /\ \A i \in 1 .. Len(detections) : detections[i].class_name \in DamageNames
    /\ \A i \in 1 .. Len(dispatch_log) :
          dispatch_log[i].damage_type \in DamageNames
    /\ \A row \in db : row.damage_type \in DamageNames
    /\ FrameEmitted =>
          LET f == FilteredDamageOnly
          IN  /\ Len(detections) = Len(f.track_ids)
              /\ \A j \in 1 .. Len(detections) :
                    /\ detections[j].track_id = f.track_ids[j]
                    /\ detections[j].box = f.boxes[j]
                    /\ detections[j].confidence = f.confidences[j]
                    /\ detections[j].class_name = class_name_of(f.class_ids[j])

\* a frame with a pothole and a detection of another class in the same
\* box: the pothole alone is emitted, and it is saved
C26_Witness ==
    /\ FrameEmitted
    /\ N = 2
    /\ boxes[1] = boxes[2] /\ crop_size_of(boxes[1]) > 0
    /\ ~IsDamage(sorted_indices[1]) /\ IsDamage(sorted_indices[2])
    /\ Len(filtered.keep_indices) = 2
    /\ Len(detections) = 1
    /\ \E row \in db : row.track_id = detections[1].track_id

(***************************************************************************)
(* Interleaved calls of save_detection (SpecUpsert).                       *)
(***************************************************************************)
\* both calls are over
SaversDone == \A c \in Savers : savers[c].pc \in {"returned", "raised"}

\* the row holds what caller c passed
RowOf(row, c) ==
    /\ row.track_id = savers[c].detection.track_id
    /\ row.damage_type = savers[c].detection.class_name
    /\ row.confidence = savers[c].detection.confidence
    /\ row.location = json_dumps(savers[c].detection.box)

\* C27 as stated: when two calls of save_detection for one track_id that is
\* not in the table interleave at their SELECT and their write, the table
\* ends with one row of the track_id that holds the fields of one of the
\* calls, and both calls return: none raises and none loses its write.
C27_UpsertAtomicPerKey ==
    (/\ SaversDone
     /\ savers[1].detection.track_id = savers[2].detection.track_id)
       => /\ Cardinality(select_by_track_id(db, savers[1].detection.track_id))
                = 1
          /\ \A row \in select_by_track_id(db, savers[1].detection.track_id) :
                \E c \in Savers : RowOf(row, c)
          /\ \A c \in Savers : savers[c].pc = "returned"

(***************************************************************************)
(* The verdict shown and the verdict saved (Spec).                         *)
(***************************************************************************)
\* the detection carries the defaults of lines 170-171
PendingDefault(d) == d.severity = "low" /\ d.recommendation = "Analyzing..."

\* C28 as stated: when main writes the row of a detection, the verdict in
\* the row is the one process_frame attached to the detection, and it is
\* null exactly when that one was the pending default.
C28_SavedIsDisplayed ==
    [][(pc = "save_detection" /\ pc' = "main_loop")
          => \A row \in select_by_track_id(db', detections[mi].track_id) :
                IF PendingDefault(detections[mi])
                THEN row.recommendations = None
                ELSE /\ row.recommendations # None
                     /\ \A rec_json \in row.recommendations :
                           /\ rec_json.json.severity = detections[mi].severity
                           /\ rec_json.json.recommendation
                                 = detections[mi].recommendation]_vars

(***************************************************************************)
(* The record store after close() (Spec).                                  *)
(***************************************************************************)
\* main is at a call of save_detection, get_detection_by_track_id or
\* get_detection_history
AtStoreCall ==
    \/ pc = "main_loop" /\ mi <= Len(detections)
    \/ pc = "save_detection"
    \/ pc = "history"

\* C29 as stated: main calls no operation of the record store after
\* close(): the store is open at every such call, the history listing on
\* both ways out of the loop included, and none raises.
C29_NoStoreCallAfterClose ==
    /\ AtStoreCall => db_open
    /\ pc # "raised"

=============================================================================
